---- MODULE Spec2Model ----
(***************************************************************************)
(* A model of the `diary add` command (Patryk27/diary): scanning a source  *)
(* tree, resolving every file's identity, planning the import and          *)
(* executing the plan against the diary.                                   *)
(*                                                                         *)
(* File names, diary names and the metadata extractor's answers are TLA+   *)
(* strings; the code's string operations (split, parse, to_lowercase,      *)
(* format!) are computed character by character.                           *)
(***************************************************************************)
EXTENDS Integers, Sequences, FiniteSets, TLC

(***************************************************************************)
(* Bounds of the model.                                                    *)
(***************************************************************************)
\* at most this many files of the catalogue lie in the source tree
MaxSources == 2
\* at most this many entries are in the diary before the first run
MaxDiary == 1
\* the command is run at most this many times in a row
MaxRuns == 2

(***************************************************************************)
(* Option<T>: None is the empty sequence, Some(x) the one-element one.     *)
(***************************************************************************)
None == <<>>
Some(x) == <<x>>
IsSome(o) == o /= <<>>
Unwrap(o) == o[1]

(***************************************************************************)
(* Strings.                                                                *)
(***************************************************************************)
Char(s, i) == SubSeq(s, i, i)

\* the characters the model's names are written in, in byte order
Ascii == " +-./0123456789:ABCDEFGHIJKLMNOPQRSTUVWXYZ_abcdefghijklmnopqrstuvwxyz"
Digits == "0123456789"
Upper == "ABCDEFGHIJKLMNOPQRSTUVWXYZ"
Lower == "abcdefghijklmnopqrstuvwxyz"

\* the position of character c in alphabet a, 0 when it is not there
IndexIn(a, c) ==
  IF \E i \in 1..Len(a) : Char(a, i) = c
  THEN CHOOSE i \in 1..Len(a) : Char(a, i) = c
  ELSE 0

\* str::find(c): the position of the first c in s, 0 when there is none
Find(s, c) ==
  IF \E i \in 1..Len(s) : Char(s, i) = c
  THEN CHOOSE i \in 1..Len(s) : Char(s, i) = c /\ \A j \in 1..(i - 1) : Char(s, j) /= c
  ELSE 0

\* the position of the last c in s, 0 when there is none
RFind(s, c) ==
  IF \E i \in 1..Len(s) : Char(s, i) = c
  THEN CHOOSE i \in 1..Len(s) : Char(s, i) = c /\ \A j \in (i + 1)..Len(s) : Char(s, j) /= c
  ELSE 0

RECURSIVE SplitFrom(_, _, _, _)
SplitFrom(s, c, i, start) ==
  IF i > Len(s) THEN << SubSeq(s, start, Len(s)) >>
  ELSE IF Char(s, i) = c
       THEN << SubSeq(s, start, i - 1) >> \o SplitFrom(s, c, i + 1, i + 1)
       ELSE SplitFrom(s, c, i + 1, start)

\* str::split(c): the pieces of s between the occurrences of c
Split(s, c) == SplitFrom(s, c, 1, 1)

\* str::strip_prefix(p)
StripPrefix(s, p) ==
  IF Len(s) >= Len(p) /\ SubSeq(s, 1, Len(p)) = p
  THEN Some(SubSeq(s, Len(p) + 1, Len(s)))
  ELSE None

RECURSIVE ToLowercase(_)
\* str::to_lowercase()
ToLowercase(s) ==
  IF s = "" THEN ""
  ELSE LET c == Char(s, 1)
           u == IndexIn(Upper, c)
       IN  (IF u = 0 THEN c ELSE Char(Lower, u)) \o ToLowercase(SubSeq(s, 2, Len(s)))

RECURSIVE DigitsValue(_, _)
DigitsValue(s, acc) ==
  IF s = "" THEN acc
  ELSE DigitsValue(SubSeq(s, 2, Len(s)), 10 * acc + (IndexIn(Digits, Char(s, 1)) - 1))

AllDigits(s) == s /= "" /\ \A i \in 1..Len(s) : IndexIn(Digits, Char(s, i)) /= 0

\* str::parse::<u32>(): an optional '+', then digits.  Numerals of up to nine
\* digits are parsed exactly; a longer one is taken to overflow.
ParseU32(s) ==
  LET body == IF Len(s) > 0 /\ Char(s, 1) = "+" THEN SubSeq(s, 2, Len(s)) ELSE s
  IN  IF AllDigits(body) /\ Len(body) <= 9
      THEN Some(DigitsValue(body, 0))
      ELSE None

\* str::parse::<i32>(): an optional sign, then digits (up to nine, as above)
ParseI32(s) ==
  LET neg  == Len(s) > 0 /\ Char(s, 1) = "-"
      sign == Len(s) > 0 /\ Char(s, 1) \in {"+", "-"}
      body == IF sign THEN SubSeq(s, 2, Len(s)) ELSE s
      v    == IF neg THEN 0 - DigitsValue(body, 0) ELSE DigitsValue(body, 0)
  IN  IF AllDigits(body) /\ Len(body) <= 9
      THEN Some(v)
      ELSE None

RECURSIVE Display(_)
\* format!("{}", n) of a natural number
Display(n) ==
  IF n < 10 THEN Char(Digits, n + 1)
  ELSE Display(n \div 10) \o Char(Digits, (n % 10) + 1)

RECURSIVE PadZero(_, _)
PadZero(s, w) == IF Len(s) >= w THEN s ELSE PadZero("0" \o s, w)

\* format!("{:02}", n)
Fmt02(n) == PadZero(Display(n), 2)
\* format!("{:04}", n)
Fmt04(n) == PadZero(Display(n), 4)

RECURSIVE StrLess(_, _)
\* byte-wise lexicographic order of two strings
StrLess(a, b) ==
  IF b = "" THEN FALSE
  ELSE IF a = "" THEN TRUE
  ELSE LET x == IndexIn(Ascii, Char(a, 1))
           y == IndexIn(Ascii, Char(b, 1))
       IN  IF x /= y THEN x < y
           ELSE StrLess(SubSeq(a, 2, Len(a)), SubSeq(b, 2, Len(b)))

RECURSIVE SeqLess(_, _)
\* lexicographic order of two sequences of strings
SeqLess(a, b) ==
  IF b = <<>> THEN FALSE
  ELSE IF a = <<>> THEN TRUE
  ELSE IF Head(a) /= Head(b) THEN StrLess(Head(a), Head(b))
  ELSE SeqLess(Tail(a), Tail(b))

\* Ord for PathBuf: component by component
PathLess(p, q) == SeqLess(Split(p, "/"), Split(q, "/"))

(***************************************************************************)
(* chrono: a NaiveDate is <<year, month, day>>, a NaiveTime is             *)
(* <<hour, minute, second>>, a NaiveDateTime is [date, time].              *)
(***************************************************************************)
IsLeap(y) == (y % 4 = 0 /\ y % 100 /= 0) \/ y % 400 = 0

DaysInMonth(y, m) ==
  IF m = 2 THEN (IF IsLeap(y) THEN 29 ELSE 28)
  ELSE IF m \in {4, 6, 9, 11} THEN 30 ELSE 31

\* NaiveDate::from_ymd_opt
from_ymd_opt(y, m, d) ==
  IF y >= 0 - 262143 /\ y <= 262142 /\ m >= 1 /\ m <= 12 /\ d >= 1 /\ d <= DaysInMonth(y, m)
  THEN Some(<<y, m, d>>)
  ELSE None

\* NaiveTime::from_hms_opt
from_hms_opt(h, m, s) ==
  IF h < 24 /\ m < 60 /\ s < 60 THEN Some(<<h, m, s>>) ELSE None

\* the order of two triples of numbers, most significant first
TripleLess(a, b) ==
  \/ a[1] < b[1]
  \/ a[1] = b[1] /\ a[2] < b[2]
  \/ a[1] = b[1] /\ a[2] = b[2] /\ a[3] < b[3]

DateLe(a, b) == a = b \/ TripleLess(a, b)

DateTimeLess(a, b) ==
  TripleLess(a.date, b.date) \/ (a.date = b.date /\ TripleLess(a.time, b.time))

\* cmp::min of two timestamps
MinDateTime(a, b) == IF DateTimeLess(b, a) THEN b ELSE a

NextDay(d) ==
  IF d[3] < DaysInMonth(d[1], d[2]) THEN <<d[1], d[2], d[3] + 1>>
  ELSE IF d[2] < 12 THEN <<d[1], d[2] + 1, 1>>
  ELSE <<d[1] + 1, 1, 1>>

\* the offset of the local time zone from UTC, in hours (the tests run with TZ=UTC)
LocalOffsetHours == 0

\* dt + Local.offset_from_utc_date(..), for an offset of whole hours east of UTC
AddLocalOffset(dt) ==
  LET h == dt.time[1] + LocalOffsetHours
  IN  IF h < 24 THEN [date |-> dt.date, time |-> <<h, dt.time[2], dt.time[3]>>]
      ELSE [date |-> NextDay(dt.date), time |-> <<h - 24, dt.time[2], dt.time[3]>>]

(***************************************************************************)
(* A file of the source tree, as it lies on disk:                          *)
(*   path      its path                                                    *)
(*   utf8      whether its name is valid Unicode                           *)
(*   exif      what exiftool prints for the file's date tag                *)
(*   created   the file system's creation time, None when unavailable      *)
(*   modified  the file system's modification time, None when unavailable  *)
(* A resolved SourceFile is [path, stem, ext, ty], its type ty being       *)
(* [kind, dt, id]: kind is "Note", "Photo" or "Video", dt the date and     *)
(* time (a note's time is midnight and unused), id the capture id.         *)
(***************************************************************************)
Midnight == <<0, 0, 0>>

\* Path::file_name
FileName(path) == SubSeq(path, RFind(path, "/") + 1, Len(path))

\* Path::file_stem: the name up to its last dot, a leading dot not counting
FileStem(path) ==
  LET name == FileName(path)
      dot  == RFind(name, ".")
  IN  IF name = "" THEN None
      ELSE IF dot <= 1 THEN Some(name)
      ELSE Some(SubSeq(name, 1, dot - 1))

\* Path::extension
Extension(path) ==
  LET name == FileName(path)
      dot  == RFind(name, ".")
  IN  IF name = "" \/ dot <= 1 THEN None
      ELSE Some(SubSeq(name, dot + 1, Len(name)))

Whitespace == {" ", "\n", "\t", "\r"}

RECURSIVE TrimStart(_)
TrimStart(s) ==
  IF s /= "" /\ Char(s, 1) \in Whitespace THEN TrimStart(SubSeq(s, 2, Len(s))) ELSE s

RECURSIVE TrimEnd(_)
TrimEnd(s) ==
  IF s /= "" /\ Char(s, Len(s)) \in Whitespace THEN TrimEnd(SubSeq(s, 1, Len(s) - 1)) ELSE s

\* str::trim()
Trim(s) == TrimEnd(TrimStart(s))

\* the part of s before its first c, s itself when it has none
BeforeFirst(s, c) ==
  IF Find(s, c) = 0 THEN s ELSE SubSeq(s, 1, Find(s, c) - 1)

\* parse_exiftool_date: Some(timestamp), or None when s is not a timestamp
parse_exiftool_date(s) ==
  IF s = "" THEN None
  ELSE
    LET dt == Split(s, " ")
    IN  IF Len(dt) /= 2 THEN None
        ELSE
          LET d  == Split(dt[1], ":")
              t  == Split(BeforeFirst(dt[2], "-"), ":")
          IN  IF Len(d) /= 3 \/ Len(t) /= 3 THEN None
              ELSE
                LET t_s == BeforeFirst(BeforeFirst(t[3], "."), "-")
                    d_y == ParseI32(d[1])
                    d_m == ParseU32(d[2])
                    d_d == ParseU32(d[3])
                    t_h == ParseU32(t[1])
                    t_m == ParseU32(t[2])
                    t_sec == ParseU32(t_s)
                IN  IF ~IsSome(d_y) \/ ~IsSome(d_m) \/ ~IsSome(d_d) THEN None
                    ELSE IF ~IsSome(from_ymd_opt(d_y[1], d_m[1], d_d[1])) THEN None
                    ELSE IF ~IsSome(t_h) \/ ~IsSome(t_m) \/ ~IsSome(t_sec) THEN None
                    ELSE IF ~IsSome(from_hms_opt(t_h[1], t_m[1], t_sec[1])) THEN None
                    ELSE Some(AddLocalOffset(
                           [date |-> Unwrap(from_ymd_opt(d_y[1], d_m[1], d_d[1])),
                            time |-> Unwrap(from_hms_opt(t_h[1], t_m[1], t_sec[1]))]))

\* extract_media_datetime: [ok, val] where val is the Option<NaiveDateTime>
extract_media_datetime(f) ==
  LET out == Trim(f.exif)
  IN  IF out = "-" \/ out = "0000:00:00 00:00:00"
      THEN [ok |-> TRUE, val |-> None]
      ELSE IF IsSome(parse_exiftool_date(out))
           THEN [ok |-> TRUE, val |-> parse_exiftool_date(out)]
           ELSE [ok |-> FALSE, val |-> None]

\* created_or_modified_at taking the modification time only for want of the other
created_or_modified_at_preferring_created(f) ==
  IF IsSome(f.created) THEN [ok |-> TRUE, val |-> f.created[1]]
  ELSE IF IsSome(f.modified) THEN [ok |-> TRUE, val |-> f.modified[1]]
  ELSE [ok |-> FALSE, val |-> None]

\* the closure created_or_modified_at of SourceFileType::new
created_or_modified_at(f) ==
  IF IsSome(f.created) /\ IsSome(f.modified)
  THEN [ok |-> TRUE, val |-> MinDateTime(f.created[1], f.modified[1])]
  ELSE IF IsSome(f.created) THEN [ok |-> TRUE, val |-> f.created[1]]
  ELSE IF IsSome(f.modified) THEN [ok |-> TRUE, val |-> f.modified[1]]
  ELSE [ok |-> FALSE, val |-> None]

PhotoExts == {"jpg", "png", "webp", "heic"}
VideoExts == {"mov", "mp4", "webm"}

Err(msg) == [kind |-> "Err", msg |-> msg]

\* the "org" arm of SourceFileType::new
NoteType(stem) ==
  LET parts == Split(stem, "-")
  IN  IF ~IsSome(ParseI32(parts[1])) THEN Err("Invalid name: invalid year")
      ELSE IF Len(parts) < 2 THEN Err("Invalid name: missing month")
      ELSE IF ~IsSome(ParseU32(parts[2])) THEN Err("Invalid name: invalid month")
      ELSE IF Len(parts) < 3 THEN Err("Invalid name: missing day")
      ELSE IF ~IsSome(ParseU32(parts[3])) THEN Err("Invalid name: invalid day")
      ELSE LET date == from_ymd_opt(ParseI32(parts[1])[1], ParseU32(parts[2])[1],
                                    ParseU32(parts[3])[1])
           IN  IF ~IsSome(date) THEN Err("Invalid name: invalid date")
               ELSE [kind |-> "Note", dt |-> [date |-> date[1], time |-> Midnight],
                     id |-> None]

\* the date, time and id read from a stem of the form DATE_TIME_ID:
\* [st, dt, id] with st "absent" (the stem has another form), "ok", "err" (a
\* component is no number) or "panic" (the unwrap of an impossible date or time)
StemDateTime(stem) ==
  LET parts == Split(stem, "_")
      none  == [st |-> "absent", dt |-> None, id |-> None]
  IN  IF Len(parts) /= 3 THEN none
      ELSE
        LET d == Split(parts[1], "-")
            t == Split(parts[2], "-")
        IN  IF Len(d) /= 3 \/ Len(t) /= 3 THEN none
            ELSE
              LET year  == ParseI32(d[1])
                  month == ParseU32(d[2])
                  day   == ParseU32(d[3])
                  hour  == ParseU32(t[1])
                  min   == ParseU32(t[2])
                  sec   == ParseU32(t[3])
              IN  IF \E n \in {year, month, day, hour, min, sec} : ~IsSome(n)
                  THEN [st |-> "err", dt |-> None, id |-> None]
                  ELSE IF \/ ~IsSome(from_ymd_opt(year[1], month[1], day[1]))
                          \/ ~IsSome(from_hms_opt(hour[1], min[1], sec[1]))
                       THEN [st |-> "panic", dt |-> None, id |-> None]
                       ELSE [st |-> "ok",
                             dt |-> Some([date |-> Unwrap(from_ymd_opt(year[1], month[1], day[1])),
                                          time |-> Unwrap(from_hms_opt(hour[1], min[1], sec[1]))]),
                             id |-> Some(parts[3])]

\* the media arm of SourceFileType::new
MediaType(f, stem, ext) ==
  LET kind   == IF ext \in PhotoExts THEN "Photo" ELSE "Video"
      named  == StemDateTime(stem)
      id     == IF IsSome(named.id) THEN named.id ELSE StripPrefix(stem, "IMG_")
  IN  IF named.st = "err" THEN Err("invalid digit found in string")
      ELSE IF named.st = "panic" THEN [kind |-> "Panic", msg |-> "called unwrap on None"]
      ELSE IF IsSome(named.dt) THEN [kind |-> kind, dt |-> named.dt[1], id |-> id]
      ELSE IF ~extract_media_datetime(f).ok THEN Err("Couldn't parse exiftool's response")
      ELSE IF IsSome(extract_media_datetime(f).val)
           THEN [kind |-> kind, dt |-> extract_media_datetime(f).val[1], id |-> id]
      ELSE IF ~created_or_modified_at(f).ok THEN Err("Cannot determine file timestamp")
      ELSE [kind |-> kind, dt |-> created_or_modified_at(f).val, id |-> id]

\* SourceFileType::new: a type, [kind |-> "None"] for an extension that is not
\* recognized, an error, or a panic
SourceFileType_new(f, stem, ext) ==
  IF ext = "org" THEN NoteType(stem)
  ELSE IF ext \in PhotoExts \cup VideoExts THEN MediaType(f, stem, ext)
  ELSE [kind |-> "None"]

\* SourceFileType::date
TypeDate(ty) == ty.dt.date

\* one item of SourceRepository::iter: [tag, file] with tag "Recognized",
\* "Unrecognized", "Err" or "Panic"
FoundSourceFile(f) ==
  LET none == [path |-> f.path, stem |-> "", ext |-> "", ty |-> [kind |-> "None"]]
  IN  IF ~IsSome(FileStem(f.path)) \/ ~IsSome(Extension(f.path))
      THEN [tag |-> "Unrecognized", file |-> none]
      ELSE IF ~f.utf8 THEN [tag |-> "Err", file |-> none]
      ELSE
        LET stem == Unwrap(FileStem(f.path))
            ext  == ToLowercase(Unwrap(Extension(f.path)))
            ty   == SourceFileType_new(f, stem, ext)
        IN  IF ty.kind \in {"Err", "Panic"} THEN [tag |-> ty.kind, file |-> none]
            ELSE IF ty.kind = "None" THEN [tag |-> "Unrecognized", file |-> none]
            ELSE [tag |-> "Recognized",
                  file |-> [path |-> f.path, stem |-> stem, ext |-> ext, ty |-> ty]]

(***************************************************************************)
(* The files a source tree is drawn from, and the entries a diary may      *)
(* hold before the first run.                                              *)
(***************************************************************************)
At(y, mo, d, h, mi, s) == [date |-> <<y, mo, d>>, time |-> <<h, mi, s>>]

OnDisk(path, exif, created, modified) ==
  [path |-> path, utf8 |-> TRUE, exif |-> exif, created |-> created, modified |-> modified]

Catalogue ==
  { \* two notes of the same day, and a note whose name is no date
    OnDisk("in/2018-01-14.org", "", Some(At(2018, 1, 20, 9, 0, 0)), None),
    OnDisk("in/old/2018-01-14.org", "", Some(At(2018, 1, 20, 9, 0, 0)), None),
    OnDisk("in/2018-13-01.org", "", Some(At(2018, 1, 20, 9, 0, 0)), None),
    \* a photo and two videos of one capture, named DATE_TIME_ID
    OnDisk("in/2018-01-14_12-34-56_ABCD.jpg", "-\n", Some(At(2018, 1, 20, 9, 0, 0)), None),
    OnDisk("in/2018-01-14_12-34-56_ABCD.mov", "-\n", Some(At(2018, 1, 20, 9, 0, 0)), None),
    OnDisk("in/2018-01-14_12-34-56_ABCD.webm", "-\n", Some(At(2018, 1, 20, 9, 0, 0)), None),
    \* a photo with the same id taken the next day, dated by exiftool
    OnDisk("in/IMG_ABCD.PNG", "2018:01:15 08:00:00\n", Some(At(2018, 1, 20, 9, 0, 0)), None),
    \* a screenshot, dated by the file system a second after its name says
    OnDisk("in/Screenshot 2018-01-14 at 12.34.56.png", "-\n",
           Some(At(2018, 1, 14, 12, 34, 57)), Some(At(2018, 1, 14, 12, 35, 0))),
    \* a video with no id
    OnDisk("in/clip.mov", "2018:01:15 09:05:07\n", Some(At(2018, 1, 20, 9, 0, 0)), None),
    \* a file that is no note, photo or video
    OnDisk("in/readme.txt", "", Some(At(2018, 1, 20, 9, 0, 0)), None) }

DiaryCatalogue ==
  { "2018/01/14/index.org",
    "2018/01/14/12-34-56 abcd.jpg",
    "2018/01/14/12-34-56 abcd.png",
    "2018/01/14/12-34-56 abcd.heic",
    "2018/01/14/12-34-56 abcd.mp4",
    "2018/01/14/10-00-00 abcd.jpg" }

\* SourceRepository::iter: what it yields for each file of the catalogue
iter == [f \in Catalogue |-> FoundSourceFile(f)]

(***************************************************************************)
(* The diary: a function from the path of an entry (below the diary's      *)
(* root) to its content.  A DiaryFileId is [date, name].                   *)
(***************************************************************************)
DiaryFileId(date, name) == [date |-> date, name |-> name]

\* DiaryRepository::dir
DiaryDir(date) == Fmt04(date[1]) \o "/" \o Fmt02(date[2]) \o "/" \o Fmt02(date[3])

\* DiaryRepository::file
DiaryFile(id) == DiaryDir(id.date) \o "/" \o id.name

\* DiaryRepository::has
has(d, id) == DiaryFile(id) \in DOMAIN d

\* add writing over an entry that is there
add_overwriting(d, src_exists, content, dst) ==
  IF ~src_exists THEN [res |-> "io", diary |-> d]
  ELSE [res |-> "ok",
        diary |-> [p \in DOMAIN d \cup {DiaryFile(dst)} |->
                     IF p = DiaryFile(dst) THEN content ELSE d[p]]]

\* DiaryRepository::add: [res, diary], res being "ok", "exists" (the entry is
\* there: nothing is written) or "io" (the source cannot be read)
add(d, src_exists, content, dst) ==
  IF DiaryFile(dst) \in DOMAIN d THEN [res |-> "exists", diary |-> d]
  ELSE IF ~src_exists THEN [res |-> "io", diary |-> d]
  ELSE [res |-> "ok", diary |-> (DiaryFile(dst) :> content) @@ d]

\* DiaryRepository::find_by_date: the names filed under a date (the add command
\* never calls it)
find_by_date(d, date) ==
  { SubSeq(p, Len(DiaryDir(date)) + 2, Len(p)) :
      p \in { q \in DOMAIN d : /\ Len(q) > Len(DiaryDir(date)) + 1
                               /\ SubSeq(q, 1, Len(DiaryDir(date)) + 1) = DiaryDir(date) \o "/" } }

\* impl Display for DiaryFileId
DisplayId(id) == "diary:" \o DiaryFile(id)

(***************************************************************************)
(* The plan: a sequence of steps [kind, src, dst, tmp, reason].  A Copy    *)
(* has a dst (a DiaryFileId), a Convert a tmp (the path it writes), a      *)
(* Skip and a Remove a reason.                                             *)
(***************************************************************************)
NoId == DiaryFileId(Midnight, "")
TmpVideo == "/tmp/video.mp4"

StepCopy(src, dst) == [kind |-> "Copy", src |-> src, dst |-> dst, tmp |-> "", reason |-> ""]
StepSkip(src, reason) == [kind |-> "Skip", src |-> src, dst |-> NoId, tmp |-> "", reason |-> reason]
StepRemove(src, reason) == [kind |-> "Remove", src |-> src, dst |-> NoId, tmp |-> "", reason |-> reason]
StepConvert(src, tmp) == [kind |-> "Convert", src |-> src, dst |-> NoId, tmp |-> tmp, reason |-> ""]

\* copy_and_remove taking the source away also without --remove
copy_and_remove_always(src, dst, remove) ==
  << StepCopy(src, dst), StepRemove(src, "just added into the diary") >>

\* Step::copy_and_remove
copy_and_remove(src, dst, remove) ==
  << StepCopy(src, dst) >>
    \o (IF remove THEN << StepRemove(src, "just added into the diary") >> ELSE << >>)

\* Step::skip_or_remove
skip_or_remove(src, reason, remove) ==
  IF remove THEN StepRemove(src, reason) ELSE StepSkip(src, reason)

\* get_media_name keeping the case of the capture id
get_media_name_keeping_case(file, dt, id) ==
  LET words == Split(file.stem, " ")
      clock(w) == Split(w, ".")
  IN  IF IsSome(id)
      THEN Fmt02(dt.time[1]) \o "-" \o Fmt02(dt.time[2]) \o "-" \o Fmt02(dt.time[3])
             \o " " \o id[1]
      ELSE IF /\ Len(words) = 4 /\ words[1] = "Screenshot" /\ words[3] = "at"
              /\ Len(clock(words[4])) = 3
           THEN clock(words[4])[1] \o "-" \o clock(words[4])[2] \o "-" \o clock(words[4])[3]
                  \o " screenshot"
      ELSE IF /\ Len(words) = 5 /\ words[1] = "Screen" /\ words[2] = "Recording"
              /\ words[4] = "at" /\ Len(clock(words[5])) = 3
           THEN clock(words[5])[1] \o "-" \o clock(words[5])[2] \o "-" \o clock(words[5])[3]
                  \o " recording"
      ELSE file.stem

\* get_media_name looking at the stem before the capture id
get_media_name_stem_first(file, dt, id) ==
  LET words == Split(file.stem, " ")
      clock(w) == Split(w, ".")
  IN  IF /\ Len(words) = 4 /\ words[1] = "Screenshot" /\ words[3] = "at"
         /\ Len(clock(words[4])) = 3
      THEN clock(words[4])[1] \o "-" \o clock(words[4])[2] \o "-" \o clock(words[4])[3]
             \o " screenshot"
      ELSE IF /\ Len(words) = 5 /\ words[1] = "Screen" /\ words[2] = "Recording"
              /\ words[4] = "at" /\ Len(clock(words[5])) = 3
           THEN clock(words[5])[1] \o "-" \o clock(words[5])[2] \o "-" \o clock(words[5])[3]
                  \o " recording"
      ELSE IF IsSome(id)
      THEN Fmt02(dt.time[1]) \o "-" \o Fmt02(dt.time[2]) \o "-" \o Fmt02(dt.time[3])
             \o " " \o ToLowercase(id[1])
      ELSE file.stem

\* AddCmd::get_media_name
get_media_name(file, dt, id) ==
  LET words == Split(file.stem, " ")
      clock(w) == Split(w, ".")
  IN  IF IsSome(id)
      THEN Fmt02(dt.time[1]) \o "-" \o Fmt02(dt.time[2]) \o "-" \o Fmt02(dt.time[3])
             \o " " \o ToLowercase(id[1])
      ELSE IF /\ Len(words) = 4 /\ words[1] = "Screenshot" /\ words[3] = "at"
              /\ Len(clock(words[4])) = 3
           THEN clock(words[4])[1] \o "-" \o clock(words[4])[2] \o "-" \o clock(words[4])[3]
                  \o " screenshot"
      ELSE IF /\ Len(words) = 5 /\ words[1] = "Screen" /\ words[2] = "Recording"
              /\ words[4] = "at" /\ Len(clock(words[5])) = 3
           THEN clock(words[5])[1] \o "-" \o clock(words[5])[2] \o "-" \o clock(words[5])[3]
                  \o " recording"
      ELSE file.stem

\* AddCmd::process_note
process_note(d, file, remove) ==
  LET dst == DiaryFileId(file.ty.dt.date, "index.org")
  IN  IF has(d, dst)
      THEN << skip_or_remove(file.path, "already in the diary", remove) >>
      ELSE copy_and_remove(file.path, dst, remove)

\* the dst of AddCmd::process_photo
PhotoDst(file) ==
  DiaryFileId(file.ty.dt.date,
              get_media_name(file, file.ty.dt, file.ty.id) \o "." \o file.ext)

\* process_photo without its look into the diary
process_photo_unchecked(d, file, remove) == copy_and_remove(file.path, PhotoDst(file), remove)

\* AddCmd::process_photo
process_photo(d, file, remove) ==
  LET dst == PhotoDst(file)
  IN  IF has(d, dst)
      THEN << skip_or_remove(file.path, "already in the diary", remove) >>
      ELSE copy_and_remove(file.path, dst, remove)

\* the closure mk_dst of AddCmd::process_video
mk_dst(file, ext) ==
  DiaryFileId(file.ty.dt.date,
              get_media_name(file, file.ty.dt, file.ty.id) \o "." \o ext)

\* will_have_photo looking at no file of the batch
will_have_photo_never(files, file) == FALSE

\* will_have_photo of AddCmd::process_video: a photo of the batch has the video's id
will_have_photo(files, file) ==
  /\ IsSome(file.ty.id)
  /\ \E i \in 1..Len(files) : files[i].ty.kind = "Photo" /\ files[i].ty.id = file.ty.id

\* whether process_video finds the video in the diary ("already in the diary")
VideoInDiary(d, file) == has(d, mk_dst(file, "mp4")) \/ has(d, mk_dst(file, "heic"))

\* whether process_video finds the video's photo ("already in the diary as a photo")
VideoHasPhoto(d, files, file) == has(d, mk_dst(file, "jpg")) \/ will_have_photo(files, file)

\* the steps process_video plans for a video that is imported
VideoImportSteps(file, remove) ==
  << StepConvert(file.path, TmpVideo),
     StepCopy(TmpVideo, mk_dst(file, "mp4")),
     StepRemove(TmpVideo, "temporary artifact") >>
    \o (IF remove THEN << StepRemove(file.path, "just added into the diary") >> ELSE << >>)

\* AddCmd::process_video
process_video(d, files, file, remove) ==
  IF VideoInDiary(d, file)
  THEN << skip_or_remove(file.path, "already in the diary", remove) >>
  ELSE IF VideoHasPhoto(d, files, file)
  THEN << skip_or_remove(file.path, "already in the diary as a photo", remove) >>
  ELSE VideoImportSteps(file, remove)

\* the steps AddCmd::process plans for one file of the batch
FileSteps(d, files, file, remove) ==
  IF file.ty.kind = "Note" THEN process_note(d, file, remove)
  ELSE IF file.ty.kind = "Photo" THEN process_photo(d, file, remove)
  ELSE process_video(d, files, file, remove)

RECURSIVE PlanFrom(_, _, _, _)
PlanFrom(d, files, i, remove) ==
  IF i > Len(files) THEN << >>
  ELSE FileSteps(d, files, files[i], remove) \o PlanFrom(d, files, i + 1, remove)

\* AddCmd::process: the plan for the batch, against the diary as it is
process(d, files, remove) == PlanFrom(d, files, 1, remove)

(***************************************************************************)
(* Scanning.                                                               *)
(***************************************************************************)
\* the filter taking `from` as an exclusive bound
InFilter_exclusive(a, date) ==
  /\ (IsSome(a.on) => date = a.on[1])
  /\ (IsSome(a.from) => TripleLess(a.from[1], date))
  /\ (IsSome(a.to) => DateLe(date, a.to[1]))

\* the filter of AddCmd::scan
InFilter(a, date) ==
  /\ (IsSome(a.on) => date = a.on[1])
  /\ (IsSome(a.from) => DateLe(a.from[1], date))
  /\ (IsSome(a.to) => DateLe(date, a.to[1]))

\* the constraints clap puts on the arguments: from and to conflict with on,
\* to requires from
ArgsAccepted(a) ==
  /\ ~(IsSome(a.from) /\ IsSome(a.on))
  /\ ~(IsSome(a.to) /\ IsSome(a.on))
  /\ (IsSome(a.to) => IsSome(a.from))

\* the place of each path of the catalogue in the order of PathBuf
PathRank ==
  LET paths == { f.path : f \in Catalogue }
  IN  [p \in paths |-> Cardinality({ q \in paths : PathLess(q, p) })]

RECURSIVE SortByPath(_)
\* files.sort_by_key(|file| file.path.clone())
SortByPath(S) ==
  IF S = {} THEN << >>
  ELSE LET first == CHOOSE x \in S : \A y \in S \ {x} : PathRank[x.path] < PathRank[y.path]
       IN  << first >> \o SortByPath(S \ {first})

\* a scan that passes over the files it cannot identify
ScanFails_never(src) == FALSE

\* whether SourceRepository::iter yields an error (or panics) on some file
ScanFails(src) == \E f \in src : iter[f].tag \in {"Err", "Panic"}

\* the files AddCmd::scan returns
scan(src, a) ==
  SortByPath({ iter[f].file :
                 f \in { g \in src : /\ iter[g].tag = "Recognized"
                                     /\ InFilter(a, TypeDate(iter[g].file.ty)) } })

Dates == { <<2018, 1, 14>>, <<2018, 1, 15>> }

\* the arguments of the command
ArgSpace ==
  [ on : {None, Some(<<2018, 1, 14>>)},
    from : {None} \cup { Some(d) : d \in Dates },
    to : {None, Some(<<2018, 1, 14>>)},
    remove : BOOLEAN,
    dry_run : BOOLEAN ]

NoArgs == [on |-> None, from |-> None, to |-> None, remove |-> FALSE, dry_run |-> FALSE]
NoStats == [skipped |-> 0, copied |-> 0, removed |-> 0]

(***************************************************************************)
(* The state.                                                              *)
(*   diary     the diary's entries and their contents                      *)
(*   source    the files of the source tree                                *)
(*   tmp       the content of /tmp/video.mp4, None when it does not exist  *)
(*   args      the command's arguments                                     *)
(*   pc        where the run is: "parse", "scan", "process", "execute",    *)
(*             "done", "failed" or "rejected"                              *)
(*   files     what scan returned                                          *)
(*   plan      what process returned                                       *)
(*   step_idx  the number of steps execute has completed                   *)
(*   stats     the statistics of execute                                   *)
(*   stdout    the lines execute has written                               *)
(*   error     the error that ended the run, "" when there is none         *)
(*   runs      the number of runs started                                  *)
(*   prev      how the previous run ended: "done", "failed", "" for none   *)
(*   diary0, source0   the diary and the source tree before the first run  *)
(***************************************************************************)
VARIABLES diary, source, tmp, args, pc, files, plan, step_idx, stats, stdout, error, runs,
          prev, diary0, source0

vars == << diary, source, tmp, args, pc, files, plan, step_idx, stats, stdout, error, runs,
           prev, diary0, source0 >>

Init ==
  /\ source \in { S \in SUBSET Catalogue : Cardinality(S) <= MaxSources }
  /\ diary \in { [p \in D |-> "old"] : D \in { E \in SUBSET DiaryCatalogue : Cardinality(E) <= MaxDiary } }
  /\ tmp = None
  /\ args = NoArgs
  /\ pc = "parse"
  /\ files = << >>
  /\ plan = << >>
  /\ step_idx = 0
  /\ stats = NoStats
  /\ stdout = << >>
  /\ error = ""
  /\ runs = 1
  /\ prev = ""
  /\ diary0 = diary
  /\ source0 = source

\* Cmd::parse: clap takes the arguments or rejects them
Parse ==
  /\ pc = "parse"
  /\ \E a \in ArgSpace :
       /\ args' = a
       /\ pc' = IF ArgsAccepted(a) THEN "scan" ELSE "rejected"
  /\ UNCHANGED << diary, source, tmp, files, plan, step_idx, stats, stdout, error, runs,
                  prev, diary0, source0 >>

\* AddCmd::scan, and the return of AddCmd::run when it fails
Scan ==
  /\ pc = "scan"
  /\ IF ScanFails(source)
     THEN /\ pc' = "failed"
          /\ error' = "Couldn't identify file"
          /\ files' = files
     ELSE /\ pc' = "process"
          /\ error' = error
          /\ files' = scan(source, args)
  /\ UNCHANGED << diary, source, tmp, args, plan, step_idx, stats, stdout, runs,
                  prev, diary0, source0 >>

\* AddCmd::process, and the first lines of AddCmd::execute
Process ==
  /\ pc = "process"
  /\ plan' = process(diary, files, args.remove)
  /\ pc' = "execute"
  /\ step_idx' = 0
  /\ stats' = NoStats
  /\ UNCHANGED << diary, source, tmp, args, files, stdout, error, runs, prev, diary0, source0 >>

\* the step execute is at
Step == plan[step_idx + 1]
AtStep(kind) == pc = "execute" /\ step_idx < Len(plan) /\ Step.kind = kind

\* a line of execute's report
Line(action, src, what) ==
  [action |-> action, src |-> src, what |-> what, idx |-> step_idx + 1, count |-> Len(plan)]

Exists(path) ==
  IF path = TmpVideo THEN IsSome(tmp) ELSE \E f \in source : f.path = path

\* the content of the video ffmpeg makes of the file at a path
Converted(path) == "hevc:" \o path

\* the content of the file at a path
Content(path) == IF path = TmpVideo THEN tmp[1] ELSE path

\* execute acting whatever --dry-run says
performs_always == TRUE

\* `if !self.dry_run`: whether execute acts on the diary and the file system
performs == ~args.dry_run

\* AddCmd::execute_copy
execute_copy ==
  /\ AtStep("Copy")
  /\ stdout' = Append(stdout, Line(IF args.dry_run THEN "Would copy" ELSE "Copying",
                                   Step.src, DisplayId(Step.dst)))
  /\ LET r == add(diary, Exists(Step.src), IF Exists(Step.src) THEN Content(Step.src) ELSE "",
                  Step.dst)
     IN  IF ~performs \/ r.res = "ok"
         THEN /\ diary' = IF performs THEN r.diary ELSE diary
              /\ stats' = [stats EXCEPT !.copied = @ + 1]
              /\ step_idx' = step_idx + 1
              /\ UNCHANGED << pc, error >>
         ELSE /\ pc' = "failed"
              /\ error' = IF r.res = "exists" THEN "would overwrite" ELSE "couldn't copy"
              /\ UNCHANGED << diary, stats, step_idx >>
  /\ UNCHANGED << source, tmp, args, files, plan, runs, prev, diary0, source0 >>

\* AddCmd::execute_skip
execute_skip ==
  /\ AtStep("Skip")
  /\ stdout' = Append(stdout, Line(IF args.dry_run THEN "Would skip" ELSE "Skipping",
                                   Step.src, Step.reason))
  /\ stats' = [stats EXCEPT !.skipped = @ + 1]
  /\ step_idx' = step_idx + 1
  /\ UNCHANGED << diary, source, tmp, args, pc, files, plan, error, runs, prev, diary0, source0 >>

\* fs::remove_file: [ok, source, tmp]
remove_file(path) ==
  IF ~Exists(path) THEN [ok |-> FALSE, source |-> source, tmp |-> tmp]
  ELSE IF path = TmpVideo THEN [ok |-> TRUE, source |-> source, tmp |-> None]
  ELSE [ok |-> TRUE, source |-> { f \in source : f.path /= path }, tmp |-> tmp]

\* AddCmd::execute_remove
execute_remove ==
  /\ AtStep("Remove")
  /\ stdout' = Append(stdout, Line(IF args.dry_run THEN "Would remove" ELSE "Removing",
                                   Step.src, Step.reason))
  /\ IF ~performs \/ remove_file(Step.src).ok
     THEN /\ source' = IF performs THEN remove_file(Step.src).source ELSE source
          /\ tmp' = IF performs THEN remove_file(Step.src).tmp ELSE tmp
          /\ stats' = [stats EXCEPT !.removed = @ + 1]
          /\ step_idx' = step_idx + 1
          /\ UNCHANGED << pc, error >>
     ELSE /\ pc' = "failed"
          /\ error' = "Couldn't remove"
          /\ UNCHANGED << source, tmp, stats, step_idx >>
  /\ UNCHANGED << diary, args, files, plan, runs, prev, diary0, source0 >>

\* AddCmd::execute_convert; ffmpeg succeeds, writing the converted video, or fails
execute_convert ==
  /\ AtStep("Convert")
  /\ stdout' = Append(stdout, Line(IF args.dry_run THEN "Would convert" ELSE "Converting",
                                   Step.src, Step.tmp))
  /\ \E success \in (IF performs THEN BOOLEAN ELSE {TRUE}) :
       IF success
       THEN /\ tmp' = IF performs THEN Some(Converted(Step.src)) ELSE tmp
            /\ step_idx' = step_idx + 1
            /\ UNCHANGED << pc, error >>
       ELSE /\ pc' = "failed"
            /\ error' = "ffmpeg failed"
            /\ UNCHANGED << tmp, step_idx >>
  /\ UNCHANGED << diary, source, args, files, plan, stats, runs, prev, diary0, source0 >>

\* the end of AddCmd::execute and AddCmd::summary
Summary ==
  /\ pc = "execute"
  /\ step_idx = Len(plan)
  /\ pc' = "done"
  /\ UNCHANGED << diary, source, tmp, args, files, plan, step_idx, stats, stdout, error, runs,
                  prev, diary0, source0 >>

\* the command is run again, with the same arguments, on what the last run left
Rerun ==
  /\ pc \in {"done", "failed"}
  /\ runs < MaxRuns
  /\ runs' = runs + 1
  /\ prev' = pc
  /\ pc' = "scan"
  /\ files' = << >>
  /\ plan' = << >>
  /\ step_idx' = 0
  /\ stats' = NoStats
  /\ stdout' = << >>
  /\ error' = ""
  /\ UNCHANGED << diary, source, tmp, args, diary0, source0 >>

Next ==
  \/ Parse
  \/ Scan
  \/ Process
  \/ execute_copy
  \/ execute_skip
  \/ execute_remove
  \/ execute_convert
  \/ Summary
  \/ Rerun

Spec == Init /\ [][Next]_vars

(***************************************************************************)
(* One file at a time.  The resolver and get_media_name are functions of   *)
(* one file: FnSpec applies them to files drawn from the sets below.  A    *)
(* run of FnSpec starts either with a source tree of one file, which       *)
(* Resolve identifies as SourceRepository::iter does and Process then      *)
(* plans against an empty diary, or with one SourceFile built by hand, as  *)
(* the unit test of get_media_name builds it, which Process plans.         *)
(***************************************************************************)
\* stems: DATE_TIME_ID, IMG_<id>, and a stem that says nothing
ResolverStems == { "2018-01-14_12-34-56_ABCD", "IMG_ABCD", "clip" }

ResolverExts == { "jpg", "mov" }

\* what exiftool prints: a date, its two ways to say there is none, nothing
\* at all, and something else
ExifOutputs ==
  { "2018:01:15 08:00:00\n", "-\n", "0000:00:00 00:00:00\n", "", "n/a\n" }

\* what the file system has for the creation and for the modification time;
\* the creation time is before or after the modification time
CreatedTimes == { None, Some(At(2018, 1, 16, 9, 0, 0)), Some(At(2018, 1, 18, 9, 0, 0)) }
ModifiedTimes == { None, Some(At(2018, 1, 17, 9, 0, 0)) }

ResolverInputs ==
  { OnDisk("in/" \o stem \o "." \o ext, exif, created, modified) :
      stem \in ResolverStems, ext \in ResolverExts, exif \in ExifOutputs,
      created \in CreatedTimes, modified \in ModifiedTimes }

NameStems ==
  { "Screenshot 2018-01-14 at 12.34.56", "Screen Recording 2018-01-14 at 1.2.3",
    "Screenshot 2018-01-14", "clip" }

NameIds == { None, Some("ABCD"), Some("x1") }

NameTimes == { <<12, 34, 56>>, <<12, 34, 57>>, <<9, 5, 7>>, <<0, 0, 0>>, <<23, 59, 59>> }

NameKinds == { [kind |-> "Photo", ext |-> "png"], [kind |-> "Video", ext |-> "mov"] }

\* the SourceFiles get_media_name is given
NameInputs ==
  { [ path |-> "in/" \o stem \o "." \o k.ext, stem |-> stem, ext |-> k.ext,
      ty |-> [kind |-> k.kind, dt |-> [date |-> <<2018, 1, 14>>, time |-> time], id |-> id] ] :
      stem \in NameStems, k \in NameKinds, time \in NameTimes, id \in NameIds }

FnInit ==
  /\ \/ /\ source \in { {f} : f \in ResolverInputs }
        /\ pc = "scan"
        /\ files = << >>
     \/ /\ source = {}
        /\ pc = "process"
        /\ files \in { << file >> : file \in NameInputs }
  /\ diary = << >>
  /\ tmp = None
  /\ args = NoArgs
  /\ plan = << >>
  /\ step_idx = 0
  /\ stats = NoStats
  /\ stdout = << >>
  /\ error = ""
  /\ runs = 1
  /\ prev = ""
  /\ diary0 = diary
  /\ source0 = source

\* SourceRepository::iter on the one file of the tree, as AddCmd::scan takes it
Resolve ==
  /\ pc = "scan"
  /\ \E f \in source :
       LET found == FoundSourceFile(f)
       IN  IF found.tag \in {"Err", "Panic"}
           THEN /\ pc' = "failed"
                /\ error' = "Couldn't identify file"
                /\ files' = files
           ELSE /\ pc' = "process"
                /\ error' = error
                /\ files' = IF found.tag = "Recognized" THEN << found.file >> ELSE << >>
  /\ UNCHANGED << diary, source, tmp, args, plan, step_idx, stats, stdout, runs,
                  prev, diary0, source0 >>

FnNext ==
  \/ Resolve
  \/ Process

FnSpec == FnInit /\ [][FnNext]_vars

(***************************************************************************)
(* What the claims speak of.                                               *)
(***************************************************************************)
\* the plan has just been made: the diary is the one it was made against
JustPlanned == pc = "execute" /\ step_idx = 0

Planned == pc = "execute" \/ (pc \in {"done", "failed"} /\ error /= "Couldn't identify file")

\* the name under which the planner looks a file up, and imports it
TargetId(file) ==
  IF file.ty.kind = "Note" THEN DiaryFileId(file.ty.dt.date, "index.org")
  ELSE IF file.ty.kind = "Photo" THEN PhotoDst(file)
  ELSE mk_dst(file, "mp4")

\* the plan imports the file at a path: it copies it, or converts it to copy that
PlansImport(path) ==
  \E i \in 1..Len(plan) : plan[i].kind \in {"Copy", "Convert"} /\ plan[i].src = path

\* the plan passes the file at a path over: a Skip, or a Remove with --remove
PlansSkip(path) ==
  \E i \in 1..Len(plan) :
    /\ plan[i].kind = (IF args.remove THEN "Remove" ELSE "Skip")
    /\ plan[i].src = path
    /\ plan[i].reason /= "just added into the diary"

\* the diary holds a copy of the file at a path, made by a run
Imported(path) ==
  \E k \in DOMAIN diary : diary[k] \in {path, Converted(path)}

(***************************************************************************)
(* C1  Idempotence.  A file that the diary already holds under its target  *)
(* name is planned as a Skip (a Remove with --remove), never as an import; *)
(* and a run that follows a run which completed and was no dry run plans   *)
(* no import at all.                                                       *)
(***************************************************************************)
PresentIsSkipped ==
  JustPlanned =>
    \A i \in 1..Len(files) :
      has(diary, TargetId(files[i])) =>
        ~PlansImport(files[i].path) /\ PlansSkip(files[i].path)

NoImport == \A i \in 1..Len(plan) : plan[i].kind \notin {"Copy", "Convert"}

C1_Idempotent ==
  /\ PresentIsSkipped
  /\ (Planned /\ prev = "done" /\ ~args.dry_run) => NoImport

\* C1 as stated: after any run that completed, a dry run too
C1_AsStated ==
  /\ PresentIsSkipped
  /\ (Planned /\ prev = "done") => NoImport

\* a second run that skipped a photo which the first run had imported
C1_Witness ==
  /\ pc = "done" /\ prev = "done" /\ ~args.dry_run /\ ~args.remove
  /\ \E i \in 1..Len(files) :
       /\ files[i].ty.kind = "Photo"
       /\ has(diary, TargetId(files[i]))
       /\ diary[DiaryFile(TargetId(files[i]))] = files[i].path
       /\ PlansSkip(files[i].path)

(***************************************************************************)
(* C2  Of a photo and a video of the source tree that have the same date   *)
(* and the same capture id, at most one is imported: no plan imports both, *)
(* and the diary never holds copies of both made by the runs.              *)
(***************************************************************************)
IsPair(p, v) ==
  /\ iter[p].tag = "Recognized" /\ iter[v].tag = "Recognized"
  /\ iter[p].file.ty.kind = "Photo" /\ iter[v].file.ty.kind = "Video"
  /\ IsSome(iter[p].file.ty.id)
  /\ iter[p].file.ty.id = iter[v].file.ty.id
  /\ iter[p].file.ty.dt.date = iter[v].file.ty.dt.date

Pairs == { pv \in source0 \X source0 : IsPair(pv[1], pv[2]) }

Verb(action) ==
  CASE action \in {"Would copy", "Copying"} -> "Copy"
    [] action \in {"Would skip", "Skipping"} -> "Skip"
    [] action \in {"Would remove", "Removing"} -> "Remove"
    [] action \in {"Would convert", "Converting"} -> "Convert"

\* what a report of the first k steps of the plan says, tense apart
ReportOf(k) ==
  [ i \in 1..k |->
      [ verb |-> plan[i].kind, src |-> plan[i].src,
        what |-> CASE plan[i].kind = "Copy" -> DisplayId(plan[i].dst)
                   [] plan[i].kind = "Convert" -> plan[i].tmp
                   [] OTHER -> plan[i].reason,
        idx |-> i, count |-> Len(plan) ] ]

Reported ==
  [ i \in 1..Len(stdout) |->
      [ verb |-> Verb(stdout[i].action), src |-> stdout[i].src, what |-> stdout[i].what,
        idx |-> stdout[i].idx, count |-> stdout[i].count ] ]

CountOf(kind, k) == Cardinality({ i \in 1..k : plan[i].kind = kind })

StatsOf(k) ==
  [skipped |-> CountOf("Skip", k), copied |-> CountOf("Copy", k), removed |-> CountOf("Remove", k)]

C3_DryRun ==
  /\ args.dry_run =>
        /\ diary = diary0 /\ source = source0 /\ tmp = None
        /\ \A i \in 1..Len(stdout) : SubSeq(stdout[i].action, 1, 6) = "Would "
        /\ pc \in {"execute", "done"} => Reported = ReportOf(step_idx) /\ stats = StatsOf(step_idx)
        /\ error \in {"", "Couldn't identify file"}
  /\ (~args.dry_run /\ pc \in {"execute", "done"}) =>
        Reported = ReportOf(step_idx) /\ stats = StatsOf(step_idx)

\* a dry run with --remove that has gone through a plan to import a video
C3_Witness ==
  /\ args.dry_run /\ args.remove /\ pc = "done"
  /\ stats.copied > 0 /\ stats.removed > 1
  /\ \E i \in 1..Len(plan) : plan[i].kind = "Convert"

(***************************************************************************)
(* C4  With --remove, the import of a note or a photo is followed at once  *)
(* by the Remove of the same source path, "just added into the diary"; the *)
(* import of a video (the Copy of its converted temporary file) is         *)
(* followed by the Remove of the temporary file and then by the Remove of  *)
(* the video's path, "just added into the diary".  Without --remove no     *)
(* Remove of an imported file's path is planned.                           *)
(***************************************************************************)
IsRemoveOf(i, path, reason) ==
  /\ i <= Len(plan)
  /\ plan[i].kind = "Remove" /\ plan[i].src = path /\ plan[i].reason = reason

\* the step that copies the file at a path into the diary: the Copy of the file,
\* or the Copy that follows its Convert
ImportStepOf(i, path) ==
  /\ plan[i].kind = "Copy"
  /\ \/ plan[i].src = path
     \/ i > 1 /\ plan[i - 1].kind = "Convert" /\ plan[i - 1].src = path

NoRemoveOfImported ==
  (JustPlanned /\ ~args.remove) =>
    \A i \in 1..Len(files) :
      PlansImport(files[i].path) =>
        \A j \in 1..Len(plan) : ~(plan[j].kind = "Remove" /\ plan[j].src = files[i].path)

C4_RemoveAfterImport ==
  /\ (JustPlanned /\ args.remove) =>
       \A i \in 1..Len(files) :
         PlansImport(files[i].path) =>
           \E j \in 1..Len(plan) :
             /\ ImportStepOf(j, files[i].path)
             /\ IF files[i].ty.kind = "Video"
                THEN /\ IsRemoveOf(j + 1, TmpVideo, "temporary artifact")
                     /\ IsRemoveOf(j + 2, files[i].path, "just added into the diary")
                ELSE IsRemoveOf(j + 1, files[i].path, "just added into the diary")
  /\ NoRemoveOfImported

\* C4 as stated: the Remove of the source path comes right after the import
C4_AsStated ==
  /\ (JustPlanned /\ args.remove) =>
       \A i \in 1..Len(files) :
         PlansImport(files[i].path) =>
           \E j \in 1..Len(plan) :
             /\ ImportStepOf(j, files[i].path)
             /\ IsRemoveOf(j + 1, files[i].path, "just added into the diary")
  /\ NoRemoveOfImported

\* a plan with --remove that imports a video and a note
C4_Witness ==
  /\ args.remove /\ JustPlanned
  /\ \E i, j \in 1..Len(files) :
       /\ files[i].ty.kind = "Video" /\ PlansImport(files[i].path)
       /\ files[j].ty.kind = "Note" /\ PlansImport(files[j].path)

(***************************************************************************)
(* C5  A video with a capture id whose companion photo (same date, same    *)
(* name, any photo extension) is in the diary is passed over as "already   *)
(* in the diary as a photo" and not imported.                              *)
(***************************************************************************)
HasCompanionPhoto(file) ==
  \E ext \in PhotoExts : has(diary, mk_dst(file, ext))

C5_AsStated ==
  JustPlanned =>
    \A i \in 1..Len(files) :
      ( /\ files[i].ty.kind = "Video" /\ IsSome(files[i].ty.id)
        /\ HasCompanionPhoto(files[i])
        /\ ~has(diary, TargetId(files[i])) ) =>
          /\ ~PlansImport(files[i].path)
          /\ \E j \in 1..Len(plan) :
               /\ plan[j].kind = (IF args.remove THEN "Remove" ELSE "Skip")
               /\ plan[j].src = files[i].path
               /\ plan[j].reason = "already in the diary as a photo"

(***************************************************************************)
(* C6  A photo or video with a capture id is not imported when the diary   *)
(* holds, under its date, an entry that ends with " <id>.<ext>" for a      *)
(* media extension and is not the file's target name: the same capture,    *)
(* filed under another time.                                               *)
(***************************************************************************)
EndsWith(s, suffix) ==
  Len(s) >= Len(suffix) /\ SubSeq(s, Len(s) - Len(suffix) + 1, Len(s)) = suffix

\* the diary holds the file's capture under a name that differs from the file's
\* target name in its time (the id is compared in lower case, as the diary's
\* names have it)
FiledUnderOtherName(file) ==
  \E name \in find_by_date(diary, file.ty.dt.date) :
    /\ name /= TargetId(file).name
    /\ \E ext \in PhotoExts \cup VideoExts :
         /\ EndsWith(name, " " \o ToLowercase(file.ty.id[1]) \o "." \o ext)
         /\ name /= get_media_name(file, file.ty.dt, file.ty.id) \o "." \o ext

C6_AsStated ==
  JustPlanned =>
    \A i \in 1..Len(files) :
      ( /\ files[i].ty.kind \in {"Photo", "Video"} /\ IsSome(files[i].ty.id)
        /\ FiledUnderOtherName(files[i]) ) =>
          ~PlansImport(files[i].path) /\ PlansSkip(files[i].path)

(***************************************************************************)
(* C7  The diary is never written over: a step of the program keeps every  *)
(* entry of the diary, with its content, and a Copy to a location that is  *)
(* there fails and leaves the diary as it is.                              *)
(***************************************************************************)
EntriesKept ==
  \A k \in DOMAIN diary : k \in DOMAIN diary' /\ diary'[k] = diary[k]

CopyOntoEntryFails ==
  (AtStep("Copy") /\ ~args.dry_run /\ has(diary, Step.dst)) =>
    pc' = "failed" /\ error' = "would overwrite" /\ diary' = diary

C7_NeverOverwritten == [][EntriesKept /\ CopyOntoEntryFails]_vars

\* a Copy has failed on an entry that an earlier step of the run had made
C7_Witness ==
  /\ pc = "failed" /\ error = "would overwrite"
  /\ has(diary, Step.dst)
  /\ diary[DiaryFile(Step.dst)] \notin {"old", Step.src}

(***************************************************************************)
(* C8  When a file of the source tree cannot be identified, the run ends   *)
(* with an error in the scan: nothing is planned, nothing is executed,     *)
(* and the diary, the source tree and the temporary video are untouched.   *)
(* A run that executes has planned every file it scanned.                  *)
(***************************************************************************)
Unidentifiable(f) == iter[f].tag \in {"Err", "Panic"}

C8_ScanAborts ==
  /\ (\E f \in source0 : Unidentifiable(f)) =>
        /\ pc \in {"parse", "scan", "failed", "rejected"}
        /\ pc = "failed" => error = "Couldn't identify file"
        /\ files = << >> /\ plan = << >> /\ stdout = << >> /\ stats = NoStats
        /\ diary = diary0 /\ source = source0 /\ tmp = None
  /\ pc = "execute" =>
        \A i \in 1..Len(files) : \E j \in 1..Len(plan) : plan[j].src = files[i].path

\* a scan has failed on one file while another file could have been imported
C8_Witness ==
  /\ pc = "failed" /\ error = "Couldn't identify file"
  /\ \E f, g \in source :
       /\ Unidentifiable(f)
       /\ iter[g].tag = "Recognized"
       /\ ~has(diary, TargetId(iter[g].file))
       /\ InFilter(args, TypeDate(iter[g].file.ty))

(***************************************************************************)
(* C9  The files scanned and planned are exactly the recognized files of   *)
(* the source tree whose date is the one of --on, or lies between --from   *)
(* and --to (from --from on, when --to is not given); a run never has --on *)
(* together with --from or --to.                                           *)
(***************************************************************************)
DayNumber(date) == date[1] * 10000 + date[2] * 100 + date[3]

Wanted(date) ==
  CASE IsSome(args.on) -> DayNumber(date) = DayNumber(args.on[1])
    [] IsSome(args.from) /\ IsSome(args.to) ->
         /\ DayNumber(args.from[1]) <= DayNumber(date)
         /\ DayNumber(date) <= DayNumber(args.to[1])
    [] IsSome(args.from) -> DayNumber(args.from[1]) <= DayNumber(date)
    [] OTHER -> TRUE

Selected ==
  { f.path : f \in { g \in source : iter[g].tag = "Recognized"
                                     /\ Wanted(iter[g].file.ty.dt.date) } }

C9_FilterExact ==
  /\ (pc = "process" \/ JustPlanned) =>
        { files[i].path : i \in 1..Len(files) } = Selected
  /\ JustPlanned =>
        { plan[j].src : j \in 1..Len(plan) } \ {TmpVideo} = Selected
  /\ pc \notin {"parse", "rejected"} =>
        ~(IsSome(args.on) /\ (IsSome(args.from) \/ IsSome(args.to)))

\* a plan under --from and --to that takes one recognized file and leaves another
C9_Witness ==
  /\ JustPlanned /\ IsSome(args.from) /\ IsSome(args.to)
  /\ Len(files) = 1
  /\ Cardinality({ f \in source : iter[f].tag = "Recognized" }) = 2
  /\ args.from[1] = files[1].ty.dt.date

(***************************************************************************)
(* C10  The name under which a photo or a video is imported.  With a       *)
(* capture id it is "HH-MM-SS <id>", the time being the file's timestamp   *)
(* and the id in lower case; without one it is "H-M-S screenshot" or       *)
(* "H-M-S recording" for a stem "Screenshot <date> at H.M.S" or "Screen    *)
(* Recording <date> at H.M.S", the time being the stem's; else it is the   *)
(* stem alone.  The extension is the file's for a photo, mp4 for a video.  *)
(***************************************************************************)
TwoDigits(n) == Char(Digits, (n \div 10) + 1) \o Char(Digits, (n % 10) + 1)

Clock(dt) == TwoDigits(dt.time[1]) \o "-" \o TwoDigits(dt.time[2]) \o "-" \o TwoDigits(dt.time[3])

\* the tag of a recognized stem, "" for any other stem
StemTag(stem) ==
  LET w == Split(stem, " ")
  IN  IF Len(w) = 4 /\ w[1] = "Screenshot" /\ w[3] = "at" /\ Len(Split(w[4], ".")) = 3
      THEN "screenshot"
      ELSE IF /\ Len(w) = 5 /\ w[1] = "Screen" /\ w[2] = "Recording" /\ w[4] = "at"
              /\ Len(Split(w[5], ".")) = 3
      THEN "recording"
      ELSE ""

\* the time a recognized stem ends with, its dots made dashes
StemClock(stem) ==
  LET w == Split(stem, " ")
      t == Split(w[Len(w)], ".")
  IN  t[1] \o "-" \o t[2] \o "-" \o t[3]

ImportName(file) ==
  ( IF IsSome(file.ty.id) THEN Clock(file.ty.dt) \o " " \o ToLowercase(file.ty.id[1])
    ELSE IF StemTag(file.stem) /= "" THEN StemClock(file.stem) \o " " \o StemTag(file.stem)
    ELSE file.stem )
  \o "." \o (IF file.ty.kind = "Video" THEN "mp4" ELSE file.ext)

\* the name as stated: "<time> <suffix>.<ext>" with the time of the timestamp
\* (the id taken in lower case, as the diary's names have it)
StatedName(file) ==
  Clock(file.ty.dt) \o " "
  \o ( IF IsSome(file.ty.id) THEN ToLowercase(file.ty.id[1])
       ELSE IF StemTag(file.stem) /= "" THEN StemTag(file.stem)
       ELSE file.stem )
  \o "." \o file.ext

\* every photo and video the plan imports goes under the name: the stated one,
\* or the one above
ImportedUnder(stated) ==
  JustPlanned =>
    \A i \in 1..Len(files) :
      files[i].ty.kind \in {"Photo", "Video"} =>
        \A j \in 1..Len(plan) :
          ImportStepOf(j, files[i].path) =>
            plan[j].dst = DiaryFileId(files[i].ty.dt.date,
                                      IF stated THEN StatedName(files[i])
                                      ELSE ImportName(files[i]))

C10_TargetName == ImportedUnder(FALSE)

\* C10 as stated
C10_AsStated == ImportedUnder(TRUE)

\* a plan that imports a photo with a capture id and a screenshot
C10_Witness ==
  /\ JustPlanned
  /\ \E i, j \in 1..Len(files) :
       /\ files[i].ty.kind = "Photo" /\ IsSome(files[i].ty.id) /\ PlansImport(files[i].path)
       /\ StemTag(files[j].stem) = "screenshot" /\ PlansImport(files[j].path)

(***************************************************************************)
(* C11  get_media_name of a file with no capture id: "H-M-S screenshot"    *)
(* for the stem "Screenshot <date> at H.M.S" and "H-M-S recording" for the *)
(* stem "Screen Recording <date> at H.M.S", the time being the one the     *)
(* stem is written with; with a capture id the name is made of the id,     *)
(* whatever the stem.  Checked under FnSpec, on SourceFiles built by hand: *)
(* the name is read off the location the file is planned to be copied to.  *)
(***************************************************************************)
\* the names the claim gives
TaggedName ==
  [ stem \in NameStems |->
      CASE stem = "Screenshot 2018-01-14 at 12.34.56" -> "12-34-56 screenshot"
        [] stem = "Screen Recording 2018-01-14 at 1.2.3" -> "1-2-3 recording"
        [] OTHER -> "" ]

LowerId == [ id \in NameIds |-> IF id = Some("ABCD") THEN "abcd" ELSE IF id = None THEN "" ELSE id[1] ]

\* the file built by hand was planned, and its copy goes under the name
Named(file) == pc = "execute" /\ source = {} /\ files = << file >>

CopiedAs(file, name) ==
  \E j \in 1..Len(plan) :
    /\ plan[j].kind = "Copy"
    /\ plan[j].dst.name = name \o "." \o (IF file.ty.kind = "Video" THEN "mp4" ELSE file.ext)

C11_SemanticTag ==
  \A file \in NameInputs :
    Named(file) =>
      /\ (file.ty.id = None /\ TaggedName[file.stem] /= "") =>
            CopiedAs(file, TaggedName[file.stem])
      /\ file.ty.id /= None =>
            CopiedAs(file, Clock(file.ty.dt) \o " " \o LowerId[file.ty.id])

\* a screenshot with no capture id has been named, its time not the timestamp's
C11_Witness ==
  \E file \in NameInputs :
    /\ Named(file)
    /\ file.stem = "Screenshot 2018-01-14 at 12.34.56" /\ file.ty.id = None
    /\ file.ty.dt.time = <<9, 5, 7>>
    /\ CopiedAs(file, "12-34-56 screenshot")

(***************************************************************************)
(* C12  When execute has completed, the statistics count files of the      *)
(* source tree: copied is the number of scanned files the run imported,    *)
(* skipped the number it skipped and removed the number it removed (would  *)
(* remove, in a dry run); nothing else is counted.                         *)
(***************************************************************************)
\* the scanned files the plan has a step of a kind for
FilesWith(kind) ==
  { i \in 1..Len(files) :
      \E j \in 1..Len(plan) : plan[j].kind = kind /\ plan[j].src = files[i].path }

FilesImported == { i \in 1..Len(files) : PlansImport(files[i].path) }

C12_AsStated ==
  pc = "done" =>
    /\ stats.copied = Cardinality(FilesImported)
    /\ stats.skipped = Cardinality(FilesWith("Skip"))
    /\ stats.removed = Cardinality(FilesWith("Remove"))

(***************************************************************************)
(* C13  A video is passed over as the companion of a photo of the batch    *)
(* exactly when that photo has the video's capture id and the video's      *)
(* date: a photo of another date does not pair, and every video that has   *)
(* the date and id of a photo of the batch is paired.                      *)
(***************************************************************************)
\* the video is neither in the diary nor has its jpg there: what is planned for
\* it depends on the batch alone
LeftToBatch(video) ==
  /\ video.ty.kind = "Video"
  /\ ~VideoInDiary(diary, video)
  /\ ~has(diary, mk_dst(video, "jpg"))

PassedAsPhoto(video) ==
  \E j \in 1..Len(plan) :
    /\ plan[j].kind \in {"Skip", "Remove"}
    /\ plan[j].src = video.path
    /\ plan[j].reason = "already in the diary as a photo"

\* a photo of the batch with the video's capture id and the video's date
HasPhotoInBatch(video) ==
  /\ IsSome(video.ty.id)
  /\ \E i \in 1..Len(files) :
       /\ files[i].ty.kind = "Photo"
       /\ files[i].ty.id = video.ty.id
       /\ files[i].ty.dt.date = video.ty.dt.date

C13_AsStated ==
  JustPlanned =>
    \A i \in 1..Len(files) :
      LeftToBatch(files[i]) => (PassedAsPhoto(files[i]) <=> HasPhotoInBatch(files[i]))

(***************************************************************************)
(* C14  The timestamp of a photo or video: the date and time of a stem     *)
(* DATE_TIME_ID; else the timestamp exiftool answers; else, exiftool       *)
(* answering that there is none, the earlier of the file system's creation *)
(* and modification times when it has both, the one it has when it has     *)
(* one, and an error when it has neither.  Checked under FnSpec.           *)
(***************************************************************************)
\* the timestamp each stem is written with
StemTimestamp ==
  [ stem \in ResolverStems |->
      IF stem = "2018-01-14_12-34-56_ABCD" THEN Some(At(2018, 1, 14, 12, 34, 56)) ELSE None ]

\* what each output of exiftool says
ExifAnswer ==
  [ out \in ExifOutputs |->
      CASE out = "2018:01:15 08:00:00\n" -> [says |-> "timestamp", dt |-> Some(At(2018, 1, 15, 8, 0, 0))]
        [] out \in {"-\n", "0000:00:00 00:00:00\n"} -> [says |-> "absent", dt |-> None]
        [] out = "" -> [says |-> "nothing", dt |-> None]
        [] OTHER -> [says |-> "malformed", dt |-> None] ]

StemOfInput(f) ==
  CHOOSE stem \in ResolverStems : \E ext \in ResolverExts : f.path = "in/" \o stem \o "." \o ext

\* seconds into the day, and the earlier of two times of the file system
SecondOfDay(dt) == dt.time[1] * 3600 + dt.time[2] * 60 + dt.time[3]

Earlier(a, b) ==
  IF \/ DayNumber(a.date) < DayNumber(b.date)
     \/ DayNumber(a.date) = DayNumber(b.date) /\ SecondOfDay(a) <= SecondOfDay(b)
  THEN a ELSE b

\* the one file of the tree has been through the resolver
Resolved(f) == source = {f} /\ pc /= "scan"

ResolvedAt(f, dt) == pc /= "failed" /\ Len(files) = 1 /\ files[1].path = f.path /\ files[1].ty.dt = dt

Refused == pc = "failed" /\ error = "Couldn't identify file" /\ files = << >>

\* the file system's answer, the creation time going first when stated so
FromFileSystem(f, stated) ==
  IF f.created = None /\ f.modified = None THEN Refused
  ELSE IF f.modified = None THEN ResolvedAt(f, f.created[1])
  ELSE IF f.created = None THEN ResolvedAt(f, f.modified[1])
  ELSE ResolvedAt(f, IF stated THEN f.created[1] ELSE Earlier(f.created[1], f.modified[1]))

TimestampPriority(stated) ==
  \A f \in ResolverInputs :
    Resolved(f) =>
      IF StemTimestamp[StemOfInput(f)] /= None
      THEN ResolvedAt(f, StemTimestamp[StemOfInput(f)][1])
      ELSE IF ExifAnswer[f.exif].says = "timestamp"
      THEN ResolvedAt(f, ExifAnswer[f.exif].dt[1])
      ELSE ExifAnswer[f.exif].says = "absent" => FromFileSystem(f, stated)

C14_TimestampPriority == TimestampPriority(FALSE)

\* C14 as stated: the modification time only when there is no creation time
C14_AsStated == TimestampPriority(TRUE)

\* a file dated by the file system, modified before it was created
C14_Witness ==
  \E f \in ResolverInputs :
    /\ Resolved(f)
    /\ StemTimestamp[StemOfInput(f)] = None /\ ExifAnswer[f.exif].says = "absent"
    /\ f.created = Some(At(2018, 1, 18, 9, 0, 0)) /\ f.modified = Some(At(2018, 1, 17, 9, 0, 0))
    /\ ResolvedAt(f, f.modified[1])

(***************************************************************************)
(* C15  exiftool answering that the tag is absent ("-", or the all-zero    *)
(* date) and exiftool answering nothing are one case for the resolver:     *)
(* the file is dated by the file system and is not refused; only a date    *)
(* that exiftool prints dates the file.  Checked under FnSpec.             *)
(***************************************************************************)
DatedByFileSystem(f) ==
  /\ pc /= "failed"
  /\ Len(files) = 1
  /\ Some(files[1].ty.dt) \in {f.created, f.modified}

C15_AsStated ==
  \A f \in ResolverInputs :
    ( /\ Resolved(f)
      /\ StemTimestamp[StemOfInput(f)] = None
      /\ ~(f.created = None /\ f.modified = None) ) =>
        /\ ExifAnswer[f.exif].says \in {"absent", "nothing"} => DatedByFileSystem(f)
        /\ ExifAnswer[f.exif].says /= "timestamp" =>
              ~(Len(files) = 1 /\ Some(files[1].ty.dt) \notin {f.created, f.modified})

(***************************************************************************)
(* C16  Nothing but the program writing to the diary, no Copy of a plan    *)
(* fails because its location is there: no Copy of a plan goes to a        *)
(* location the diary held when the plan was made, nor to the location of  *)
(* an earlier Copy of the plan.                                            *)
(***************************************************************************)
NoCopyOntoEntry ==
  JustPlanned => \A j \in 1..Len(plan) : plan[j].kind = "Copy" => ~has(diary, plan[j].dst)

NoCopyTwice ==
  \A j, k \in 1..Len(plan) :
    (j < k /\ plan[j].kind = "Copy" /\ plan[k].kind = "Copy") => plan[j].dst /= plan[k].dst

C16_AsStated ==
  /\ NoCopyOntoEntry
  /\ NoCopyTwice
  /\ error /= "would overwrite"

(***************************************************************************)
(* C17  In a run with --remove that is no dry run, when a file of the      *)
(* source tree is removed the diary holds what the removal rests on: the   *)
(* file's own entry or, for a video, the photo it is the companion of.  A  *)
(* Remove changes nothing in the diary, and neither does a step that       *)
(* fails: as long as the Remove is the last step completed, the diary is   *)
(* the one the file was removed under.                                     *)
(***************************************************************************)
\* the last step completed removed a file of the source tree
JustRemoved(file) ==
  /\ args.remove /\ ~args.dry_run
  /\ pc \in {"execute", "done", "failed"}
  /\ step_idx >= 1
  /\ plan[step_idx].kind = "Remove"
  /\ plan[step_idx].src = file.path

\* the diary holds a photo the video is the companion of: one of the video's
\* name, or the copy of a photo of the batch that has the video's capture id
CompanionInDiary(video) ==
  \/ \E ext \in PhotoExts : has(diary, mk_dst(video, ext))
  \/ /\ IsSome(video.ty.id)
     /\ \E i \in 1..Len(files) :
          /\ files[i].ty.kind = "Photo"
          /\ files[i].ty.id = video.ty.id
          /\ has(diary, TargetId(files[i]))

C17_AsStated ==
  \A i \in 1..Len(files) :
    JustRemoved(files[i]) =>
      \/ has(diary, TargetId(files[i]))
      \/ files[i].ty.kind = "Video" /\ CompanionInDiary(files[i])

====
